---- MODULE Spec2Model ----
(***************************************************************************)
(* The kernel-session execution flow of the file editor widget             *)
(* (packages/fileeditor/src/widget.ts, FileEditor.runPython and its        *)
(* helpers getKernelSpecs, startKernel, shutDownKernel).                   *)
(*                                                                         *)
(* Every click of the "Run code" toolbar button starts one run of the      *)
(* async arrow function runPython.  A run is a chain of continuations on   *)
(* the single event loop: each `await` / `.then` suspends the run until    *)
(* the promise it waits for settles, and the continuation then runs as a   *)
(* task of its own.  The model has one action for every settlement of a    *)
(* promise (resolved or rejected; a promise may also stay pending for      *)
(* ever) and one action for every continuation of the source.  A           *)
(* continuation is a job of the promise job queue: the event loop drains   *)
(* that queue before it takes the next task (a click, a message from the   *)
(* server), so no task runs while a continuation is queued.                *)
(*                                                                         *)
(* The Kernel namespace of @jupyterlab/services (getSpecs, startNew,       *)
(* requestExecute, shutdown, the session status) is not part of the        *)
(* sources at hand; its behaviour is modelled from the specification       *)
(* (sections 4.1 - 4.5) in the operators and actions marked "Kernel API".  *)
(***************************************************************************)
EXTENDS Naturals, FiniteSets

\* Bounds of the model.
MaxRuns == 2          \* clicks of the "Run code" button
MaxMsgs == 2          \* IOPub messages delivered in all
MaxCallerCalls == 1   \* execute calls accepted on a handle outside runPython (ApiSpec)

Runs == 1..MaxRuns
Sessions == 1..MaxRuns       \* every run starts at most one kernel
NoSession == 0

\* Kernel names the spec registry may report as default.
KernelNames == {"python3", "ir"}

VARIABLES
  pc,            \* run -> position of the run in runPython
  runResult,     \* run -> state of the promise runPython returned to its caller
  defaultName,   \* run -> kernelSpecs.default as resolved ("" before)
  kernel,        \* run -> the local `kernel` of the run (a session id, 0 before)
  fut,           \* run -> state of the local `future` and of future.done
  handler,       \* run -> future.onIOPub has been assigned
  delivered,     \* run -> invocations of the run's onIOPub handler
  specQueries,   \* run -> Kernel.getSpecs calls made
  startCalls,    \* run -> Kernel.startNew calls made
  specsState,    \* run -> state of the promise Kernel.getSpecs returned
  unhandled,     \* rejections no handler was registered for: <<what, id>>
  status,        \* session -> status of the session handle
  sessName,      \* session -> the name it was started with
  owner,         \* session -> the run whose startKernel call created it
  execReqs,      \* session -> execute_request messages sent over the transport
  lastExec,      \* <<session, outcome>> of the latest execute call
  shutdownReqs,  \* session -> shutdown requests sent
  extraFut,      \* session -> a future created outside runPython is outstanding
  callerCalls    \* execute calls accepted outside runPython so far

vars == <<pc, runResult, defaultName, kernel, fut, handler, delivered,
          specQueries, startCalls, specsState, unhandled, status, sessName, owner,
          execReqs, lastExec, shutdownReqs, extraFut, callerCalls>>

runVars == <<pc, runResult, defaultName, kernel, fut, handler, delivered,
             specQueries, startCalls, specsState>>
sessVars == <<status, sessName, owner, execReqs, lastExec,
              shutdownReqs, extraFut>>

TypeOK ==
  /\ pc \in [Runs -> {"idle", "awaitSpecs", "specsQueued", "awaitStart", "startQueued",
                      "awaitDone", "doneQueued", "finished", "execFailed", "failed"}]
  /\ runResult \in [Runs -> {"pending", "fulfilled", "SpecUnavailable", "LaunchFailure",
                             "SessionBusy", "SessionClosed"}]
  /\ defaultName \in [Runs -> KernelNames \cup {""}]
  /\ kernel \in [Runs -> Sessions \cup {NoSession}]
  /\ fut \in [Runs -> {"none", "inflight", "resolved", "rejected"}]
  /\ handler \in [Runs -> BOOLEAN]
  /\ specsState \in [Runs -> {"none", "pending", "resolved", "rejected"}]
  /\ status \in [Sessions -> {"NoSession", "Connecting", "Ready", "Executing",
                              "Closing", "Closed", "Unknown"}]
  /\ owner \in [Sessions -> Runs \cup {0}]
  /\ extraFut \in [Sessions -> BOOLEAN]

Init ==
  /\ pc = [r \in Runs |-> "idle"]
  /\ runResult = [r \in Runs |-> "pending"]
  /\ defaultName = [r \in Runs |-> ""]
  /\ kernel = [r \in Runs |-> NoSession]
  /\ fut = [r \in Runs |-> "none"]
  /\ handler = [r \in Runs |-> FALSE]
  /\ delivered = [r \in Runs |-> 0]
  /\ specQueries = [r \in Runs |-> 0]
  /\ startCalls = [r \in Runs |-> 0]
  /\ specsState = [r \in Runs |-> "none"]
  /\ unhandled = {}
  /\ status = [s \in Sessions |-> "NoSession"]
  /\ sessName = [s \in Sessions |-> ""]
  /\ owner = [s \in Sessions |-> 0]
  /\ execReqs = [s \in Sessions |-> 0]
  /\ lastExec = <<NoSession, "none">>
  /\ shutdownReqs = [s \in Sessions |-> 0]
  /\ extraFut = [s \in Sessions |-> FALSE]
  /\ callerCalls = 0

----------------------------------------------------------------------------
\* Kernel API (modelled from the specification).

\* The session the startNew call of run r created.
StartedSession(r) == CHOOSE s \in Sessions : owner[s] = r

\* Kernel.startNew allocates a fresh session identity for every call.
NextSessionId == Cardinality({s \in Sessions : owner[s] # 0}) + 1

\* Futures of session s that have not reached their terminal message.
Outstanding(s) ==
  (IF \E r \in Runs : kernel[r] = s /\ fut[r] = "inflight" THEN 1 ELSE 0)
  + (IF extraFut[s] THEN 1 ELSE 0)

\* Variant of ExecuteResult: a busy session accepts a further execute call.
ExecuteResultNoBusy(s) ==
  IF status[s] = "Closed" THEN "SessionClosed"
  ELSE IF status[s] \in {"Ready", "Executing"} THEN "ok"
  ELSE "SessionClosed"

\* Variant of ExecuteResult: the status of the handle is not looked at.
ExecuteResultNoClosed(s) ==
  IF Outstanding(s) > 0 THEN "SessionBusy" ELSE "ok"

\* execute(session, code), section 4.3 and 4.5: SessionClosed on a closed
\* handle, SessionBusy while a future of the session is outstanding.  A handle
\* whose teardown has begun or failed (Closing, Unknown) is not usable either.
ExecuteResult(s) ==
  IF status[s] = "Closed" THEN "SessionClosed"
  ELSE IF Outstanding(s) > 0 THEN "SessionBusy"
  ELSE IF status[s] = "Ready" THEN "ok"
  ELSE "SessionClosed"

\* The status of a session after one of its futures reached its terminal message.
StatusAfterTerminal(s) == IF status[s] = "Executing" THEN "Ready" ELSE status[s]

----------------------------------------------------------------------------
\* FileEditor.runPython, one action per task or job of the event loop.

\* A continuation of some run is queued as a job: it runs before any task.
JobQueued == \E r \in Runs : pc[r] \in {"specsQueued", "startQueued", "doneQueued"}

\* The button is clicked: runPython reads the text and calls getKernelSpecs,
\* which calls Kernel.getSpecs and suspends.
RunPython(r) ==
  /\ ~JobQueued
  /\ pc[r] = "idle"
  /\ \A q \in Runs : q < r => pc[q] # "idle"
  /\ specQueries' = [specQueries EXCEPT ![r] = @ + 1]
  /\ specsState' = [specsState EXCEPT ![r] = "pending"]
  /\ pc' = [pc EXCEPT ![r] = "awaitSpecs"]
  /\ UNCHANGED <<runResult, defaultName, kernel, fut, handler, delivered,
                 startCalls, unhandled, callerCalls>>
  /\ UNCHANGED sessVars

\* Kernel.getSpecs resolves with default name d; getKernelSpecs logs and returns.
SpecsResolved(r, d) ==
  /\ ~JobQueued
  /\ pc[r] = "awaitSpecs"
  /\ defaultName' = [defaultName EXCEPT ![r] = d]
  /\ specsState' = [specsState EXCEPT ![r] = "resolved"]
  /\ pc' = [pc EXCEPT ![r] = "specsQueued"]
  /\ UNCHANGED <<runResult, kernel, fut, handler, delivered, specQueries,
                 startCalls, unhandled, callerCalls>>
  /\ UNCHANGED sessVars

\* Kernel.getSpecs rejects: the await in getKernelSpecs throws, and so does the
\* await in runPython; the promise of runPython rejects.
SpecsRejected(r) ==
  /\ ~JobQueued
  /\ pc[r] = "awaitSpecs"
  /\ specsState' = [specsState EXCEPT ![r] = "rejected"]
  /\ runResult' = [runResult EXCEPT ![r] = "SpecUnavailable"]
  /\ pc' = [pc EXCEPT ![r] = "failed"]
  /\ UNCHANGED <<defaultName, kernel, fut, handler, delivered, specQueries,
                 startCalls, unhandled, callerCalls>>
  /\ UNCHANGED sessVars

\* Variant of StartName: a fixed kernel name instead of the resolved default.
StartNameFixed(r) == "python3"

\* kernelSettings = { name: kernelSpecs.default }
StartName(r) == defaultName[r]

\* The continuation after `await this.getKernelSpecs()`: startKernel(kernelSettings)
\* calls Kernel.startNew and suspends.
StartKernel(r) ==
  /\ pc[r] = "specsQueued"
  /\ LET s == NextSessionId IN
       /\ s \in Sessions
       /\ status' = [status EXCEPT ![s] = "Connecting"]
       /\ sessName' = [sessName EXCEPT ![s] = StartName(r)]
       /\ owner' = [owner EXCEPT ![s] = r]
  /\ startCalls' = [startCalls EXCEPT ![r] = @ + 1]
  /\ pc' = [pc EXCEPT ![r] = "awaitStart"]
  /\ UNCHANGED <<runResult, defaultName, kernel, fut, handler, delivered,
                 specQueries, specsState, unhandled, callerCalls>>
  /\ UNCHANGED <<execReqs, lastExec, shutdownReqs, extraFut>>

\* Kernel.startNew resolves with a connected handle.
KernelStarted(r) ==
  /\ ~JobQueued
  /\ pc[r] = "awaitStart"
  /\ status' = [status EXCEPT ![StartedSession(r)] = "Ready"]
  /\ pc' = [pc EXCEPT ![r] = "startQueued"]
  /\ UNCHANGED <<runResult, defaultName, kernel, fut, handler, delivered,
                 specQueries, startCalls, specsState, unhandled, callerCalls>>
  /\ UNCHANGED <<sessName, owner, execReqs, lastExec, shutdownReqs,
                 extraFut>>

\* Variant of StartRejected: the rejection is swallowed and the run goes on.
StartRejectedContinues(r) ==
  /\ ~JobQueued
  /\ pc[r] = "awaitStart"
  /\ status' = [status EXCEPT ![StartedSession(r)] = "NoSession"]
  /\ pc' = [pc EXCEPT ![r] = "startQueued"]
  /\ UNCHANGED <<runResult, defaultName, kernel, fut, handler, delivered,
                 specQueries, startCalls, specsState, unhandled, callerCalls>>
  /\ UNCHANGED <<sessName, owner, execReqs, lastExec, shutdownReqs,
                 extraFut>>

\* Kernel.startNew rejects: no handle exists, the promise of runPython rejects.
StartRejected(r) ==
  /\ ~JobQueued
  /\ pc[r] = "awaitStart"
  /\ status' = [status EXCEPT ![StartedSession(r)] = "NoSession"]
  /\ runResult' = [runResult EXCEPT ![r] = "LaunchFailure"]
  /\ pc' = [pc EXCEPT ![r] = "failed"]
  /\ UNCHANGED <<defaultName, kernel, fut, handler, delivered, specQueries,
                 startCalls, specsState, unhandled, callerCalls>>
  /\ UNCHANGED <<sessName, owner, execReqs, lastExec, shutdownReqs,
                 extraFut>>

\* The continuation after `await this.startKernel(...)`: kernel.requestExecute,
\* future.onIOPub = ..., future.done.then(...), and runPython returns.  A throw
\* of requestExecute rejects the promise of runPython.
Execute(r) ==
  /\ pc[r] = "startQueued"
  /\ LET s == StartedSession(r)
         res == ExecuteResult(s)
     IN
       /\ kernel' = [kernel EXCEPT ![r] = s]
       /\ lastExec' = <<s, res>>
       /\ IF res = "ok"
            THEN /\ execReqs' = [execReqs EXCEPT ![s] = @ + 1]
                 /\ status' = [status EXCEPT ![s] = "Executing"]
                 /\ fut' = [fut EXCEPT ![r] = "inflight"]
                 /\ handler' = [handler EXCEPT ![r] = TRUE]
                 /\ runResult' = [runResult EXCEPT ![r] = "fulfilled"]
                 /\ pc' = [pc EXCEPT ![r] = "awaitDone"]
            ELSE /\ runResult' = [runResult EXCEPT ![r] = res]
                 /\ pc' = [pc EXCEPT ![r] = "failed"]
                 /\ UNCHANGED <<execReqs, status, fut, handler>>
  /\ UNCHANGED <<defaultName, delivered, specQueries, startCalls, specsState,
                 unhandled, callerCalls>>
  /\ UNCHANGED <<sessName, owner, shutdownReqs, extraFut>>

\* Handler invocations of the runs 1..n.
RECURSIVE DeliveredUpTo(_)
DeliveredUpTo(n) == IF n = 0 THEN 0 ELSE delivered[n] + DeliveredUpTo(n - 1)

\* Kernel API, section 4.4: the handler of a future is invoked until the
\* terminal message of the future.
Subscribed(r) == handler[r] /\ fut[r] = "inflight"

\* shutDownKernel(kernel): kernel.shutdown() sends one shutdown request; the
\* promise it returns gets a fulfilment handler only.
ShutDownKernel(s) ==
  /\ shutdownReqs' = [shutdownReqs EXCEPT ![s] = @ + 1]
  /\ status' = [status EXCEPT ![s] = "Closing"]

\* Variant of IOPub: the handler itself shuts the kernel down on a message.
IOPubShutsDown(r) ==
  /\ ~JobQueued
  /\ Subscribed(r)
  /\ DeliveredUpTo(MaxRuns) < MaxMsgs
  /\ delivered' = [delivered EXCEPT ![r] = @ + 1]
  /\ IF status[kernel[r]] = "Executing"
       THEN ShutDownKernel(kernel[r])
       ELSE UNCHANGED <<shutdownReqs, status>>
  /\ UNCHANGED <<pc, runResult, defaultName, kernel, fut, handler, specQueries,
                 startCalls, specsState, unhandled, callerCalls>>
  /\ UNCHANGED <<sessName, owner, execReqs, lastExec, extraFut>>

\* An IOPub message of the future arrives and future.onIOPub(msg) is invoked.
\* The handler prints the text of a message whose content.name is 'stdout' and
\* changes nothing (console output is not part of the state, here as elsewhere).
IOPub(r) ==
  /\ ~JobQueued
  /\ Subscribed(r)
  /\ DeliveredUpTo(MaxRuns) < MaxMsgs
  /\ delivered' = [delivered EXCEPT ![r] = @ + 1]
  /\ UNCHANGED <<pc, runResult, defaultName, kernel, fut, handler, specQueries,
                 startCalls, specsState, unhandled, callerCalls>>
  /\ UNCHANGED sessVars

\* The terminal message arrives and future.done resolves: the fulfilment
\* handler registered by runPython is queued.
FutureDone(r) ==
  /\ ~JobQueued
  /\ pc[r] = "awaitDone"
  /\ fut[r] = "inflight"
  /\ fut' = [fut EXCEPT ![r] = "resolved"]
  /\ status' = [status EXCEPT ![kernel[r]] = StatusAfterTerminal(kernel[r])]
  /\ pc' = [pc EXCEPT ![r] = "doneQueued"]
  /\ UNCHANGED <<runResult, defaultName, kernel, handler, delivered,
                 specQueries, startCalls, specsState, unhandled, callerCalls>>
  /\ UNCHANGED <<sessName, owner, execReqs, lastExec, shutdownReqs,
                 extraFut>>

\* future.done rejects (the execution failed): future.done.then(...) registers
\* no rejection handler, so nothing of runPython runs.
FutureFailed(r) ==
  /\ ~JobQueued
  /\ pc[r] = "awaitDone"
  /\ fut[r] = "inflight"
  /\ fut' = [fut EXCEPT ![r] = "rejected"]
  /\ status' = [status EXCEPT ![kernel[r]] = StatusAfterTerminal(kernel[r])]
  /\ unhandled' = unhandled \cup {<<"done", r>>}
  /\ pc' = [pc EXCEPT ![r] = "execFailed"]
  /\ UNCHANGED <<runResult, defaultName, kernel, handler, delivered,
                 specQueries, startCalls, specsState, callerCalls>>
  /\ UNCHANGED <<sessName, owner, execReqs, lastExec, shutdownReqs,
                 extraFut>>

\* Variant of ShutdownTarget: the kernel started last (as if `kernel` were a
\* field of the widget shared by all runs).
LatestKernel(r) == CHOOSE s \in Sessions :
  /\ status[s] \notin {"NoSession", "Connecting"}
  /\ \A t \in Sessions : status[t] \notin {"NoSession", "Connecting"} => t <= s

\* this.shutDownKernel(kernel): the `kernel` the closure of the run captured.
ShutdownTarget(r) == kernel[r]

\* Variant of DoneThen: shutDownKernel is called without waiting for future.done.
DoneThenEager(r) ==
  /\ pc[r] \in {"awaitDone", "doneQueued"}
  /\ kernel[r] # NoSession
  /\ ShutDownKernel(ShutdownTarget(r))
  /\ pc' = [pc EXCEPT ![r] = "finished"]
  /\ UNCHANGED <<runResult, defaultName, kernel, fut, handler, delivered,
                 specQueries, startCalls, specsState, unhandled, callerCalls>>
  /\ UNCHANGED <<sessName, owner, execReqs, lastExec, extraFut>>

\* Variant of DoneThen: the shutdown is requested a second time.
DoneThenAgain(r) ==
  /\ pc[r] \in {"doneQueued", "finished"}
  /\ shutdownReqs[ShutdownTarget(r)] < 2
  /\ ShutDownKernel(ShutdownTarget(r))
  /\ pc' = [pc EXCEPT ![r] = "finished"]
  /\ UNCHANGED <<runResult, defaultName, kernel, fut, handler, delivered,
                 specQueries, startCalls, specsState, unhandled, callerCalls>>
  /\ UNCHANGED <<sessName, owner, execReqs, lastExec, extraFut>>

\* The fulfilment handler of future.done: logs and calls shutDownKernel(kernel).
DoneThen(r) ==
  /\ pc[r] = "doneQueued"
  /\ ShutDownKernel(ShutdownTarget(r))
  /\ pc' = [pc EXCEPT ![r] = "finished"]
  /\ UNCHANGED <<runResult, defaultName, kernel, fut, handler, delivered,
                 specQueries, startCalls, specsState, unhandled, callerCalls>>
  /\ UNCHANGED <<sessName, owner, execReqs, lastExec, extraFut>>

\* kernel.shutdown() resolves: the session is closed, 'Kernel shut down' is logged.
ShutdownResolved(s) ==
  /\ ~JobQueued
  /\ status[s] = "Closing"
  /\ status' = [status EXCEPT ![s] = "Closed"]
  /\ UNCHANGED runVars
  /\ UNCHANGED <<unhandled, callerCalls>>
  /\ UNCHANGED <<sessName, owner, execReqs, lastExec, shutdownReqs,
                 extraFut>>

\* kernel.shutdown() rejects: the session is left in the Unknown state; the
\* promise chain of shutDownKernel has no rejection handler and is returned
\* to nobody.
ShutdownRejected(s) ==
  /\ ~JobQueued
  /\ status[s] = "Closing"
  /\ status' = [status EXCEPT ![s] = "Unknown"]
  /\ unhandled' = unhandled \cup {<<"shutdown", s>>}
  /\ UNCHANGED runVars
  /\ UNCHANGED callerCalls
  /\ UNCHANGED <<sessName, owner, execReqs, lastExec, shutdownReqs,
                 extraFut>>

\* Every task and job but the click that starts a run.
Steps ==
  \/ \E r \in Runs, d \in KernelNames : SpecsResolved(r, d)
  \/ \E r \in Runs : SpecsRejected(r)
  \/ \E r \in Runs : StartKernel(r)
  \/ \E r \in Runs : KernelStarted(r)
  \/ \E r \in Runs : StartRejected(r)
  \/ \E r \in Runs : Execute(r)
  \/ \E r \in Runs : IOPub(r)
  \/ \E r \in Runs : FutureDone(r)
  \/ \E r \in Runs : FutureFailed(r)
  \/ \E r \in Runs : DoneThen(r)
  \/ \E s \in Sessions : ShutdownResolved(s)
  \/ \E s \in Sessions : ShutdownRejected(s)

Next ==
  \/ \E r \in Runs : RunPython(r)
  \/ Steps

Spec == Init /\ [][Next]_vars

\* The event loop runs every queued continuation.
Fairness == \A r \in Runs :
  WF_vars(StartKernel(r)) /\ WF_vars(Execute(r)) /\ WF_vars(DoneThen(r))

FairSpec == Spec /\ Fairness

----------------------------------------------------------------------------
\* Kernel API: execute calls on a handle from outside runPython.

\* execute(session, code) on a handle that was returned to its caller.
CallerExecute(s) ==
  /\ ~JobQueued
  /\ \E r \in Runs : kernel[r] = s
  /\ lastExec' = <<s, ExecuteResult(s)>>
  /\ IF ExecuteResult(s) = "ok"
       THEN /\ callerCalls < MaxCallerCalls
            /\ callerCalls' = callerCalls + 1
            /\ execReqs' = [execReqs EXCEPT ![s] = @ + 1]
            /\ status' = [status EXCEPT ![s] = "Executing"]
            /\ extraFut' = [extraFut EXCEPT ![s] = TRUE]
       ELSE UNCHANGED <<callerCalls, execReqs, status, extraFut>>
  /\ UNCHANGED runVars
  /\ UNCHANGED <<unhandled, sessName, owner, shutdownReqs>>

\* The terminal message of a future created by CallerExecute.
CallerFutureDone(s) ==
  /\ ~JobQueued
  /\ extraFut[s]
  /\ extraFut' = [extraFut EXCEPT ![s] = FALSE]
  /\ status' = [status EXCEPT ![s] = StatusAfterTerminal(s)]
  /\ UNCHANGED runVars
  /\ UNCHANGED <<unhandled, callerCalls, sessName, owner, execReqs, lastExec,
                 shutdownReqs>>

\* No run is under way and no start or shutdown request is pending.
AtRest ==
  /\ \A r \in Runs : pc[r] \in {"idle", "finished", "execFailed", "failed"}
  /\ \A s \in Sessions : status[s] \notin {"Connecting", "Closing"}

\* The outcome of an execute call depends on the session it is made on only
\* (ExecuteResult), so the runs are taken one after the other here.
ApiNext ==
  \/ \E r \in Runs : AtRest /\ RunPython(r)
  \/ Steps
  \/ \E s \in Sessions : CallerExecute(s)
  \/ \E s \in Sessions : CallerFutureDone(s)

ApiSpec == Init /\ [][ApiNext]_vars

----------------------------------------------------------------------------
\* Properties.

\* C1: once a session is Closed, every execute call against it fails with
\* SessionClosed and sends no execution request.
C1_ExecuteOnClosedFails ==
  [][\A s \in Sessions :
       status[s] = "Closed" =>
         /\ execReqs'[s] = execReqs[s]
         /\ (lastExec' # lastExec /\ lastExec'[1] = s) => lastExec'[2] = "SessionClosed"]_vars

C1_Witness ==
  \E s \in Sessions :
    status[s] = "Closed" /\ lastExec = <<s, "SessionClosed">> /\ execReqs[s] = 1

\* C2: a session never has more than one outstanding future; an execute call on
\* a session with an outstanding future is rejected with SessionBusy and sends
\* nothing, so a call is accepted only after the previous future terminated.
C2_OneOutstandingFuture ==
  [][\A s \in Sessions :
       /\ Outstanding(s)' <= 1
       /\ Outstanding(s) > 0 => execReqs'[s] = execReqs[s]
       /\ (Outstanding(s) > 0 /\ lastExec' # lastExec /\ lastExec'[1] = s) =>
            lastExec'[2] = "SessionBusy"]_vars

C2_Witness ==
  \E s \in Sessions :
    Outstanding(s) = 1 /\ lastExec = <<s, "SessionBusy">> /\ extraFut[s]

\* C3: whenever the future of a started session has reached a terminal outcome,
\* success or failure, the shutdown of that session is eventually requested.
C3_TeardownAfterTermination ==
  \A r \in Runs :
    (fut[r] \in {"resolved", "rejected"})
      ~> (kernel[r] # NoSession /\ shutdownReqs[kernel[r]] > 0)

\* C4: a rejected shutdown request is surfaced to the caller as TeardownFailure,
\* leaves the session Unknown (never Closed) and is not followed by a second
\* shutdown request.
C4_TeardownFailureSurfaced ==
  \A s \in Sessions :
    status[s] = "Unknown" =>
      /\ runResult[owner[s]] = "TeardownFailure"
      /\ <<"shutdown", s>> \notin unhandled
      /\ shutdownReqs[s] = 1

\* C5: once the shutdown of a session has completed, the output handler of the
\* execution on that session is not invoked any more.
C5_NoMessageAfterRelease ==
  [][\A s \in Sessions :
       status[s] = "Closed" =>
         delivered'[owner[s]] = delivered[owner[s]]]_vars

C5_Witness ==
  \E s \in Sessions :
    /\ status[s] = "Closed"
    /\ handler[owner[s]]
    /\ delivered[owner[s]] > 0
    /\ DeliveredUpTo(MaxRuns) < MaxMsgs

\* The edges of the state machine of a session handle.  A start call that fails
\* returns no handle: its slot goes back to NoSession.
AllowedEdges ==
  {<<"NoSession", "Connecting">>, <<"Connecting", "NoSession">>,
   <<"Connecting", "Ready">>, <<"Ready", "Executing">>, <<"Executing", "Ready">>,
   <<"Ready", "Closing">>, <<"Closing", "Closed">>, <<"Closing", "Unknown">>}

\* C6: the status of a session changes only along Connecting -> Ready ->
\* (Executing <-> Ready) -> Closing -> Closed, Unknown is entered only from
\* Closing, and nothing leaves Closed or Unknown.
C6_StatusStateMachine ==
  [][\A s \in Sessions :
       status'[s] # status[s] => <<status[s], status'[s]>> \in AllowedEdges]_vars

C6_Witness ==
  \E s, t \in Sessions :
    /\ status[s] = "Closed"
    /\ status[t] = "Unknown"

\* C7: a run sends at most one spec query and at most one session start; a
\* started session gets exactly one execution request (sent by the continuation
\* of the start) and at most one shutdown request.
C7_NoRetryNoDuplicate ==
  /\ \A r \in Runs :
       /\ specQueries[r] <= 1
       /\ startCalls[r] <= 1
       /\ Cardinality({s \in Sessions : owner[s] = r}) <= 1
  /\ \A s \in Sessions :
       /\ execReqs[s] <= 1
       /\ shutdownReqs[s] <= 1
       /\ (status[s] \notin {"NoSession", "Connecting"} /\ pc[owner[s]] # "startQueued")
            => execReqs[s] = 1

C7_Witness ==
  /\ \E s \in Sessions : status[s] = "Unknown" /\ execReqs[s] = 1 /\ shutdownReqs[s] = 1
  /\ \E r \in Runs : pc[r] = "failed" /\ specQueries[r] = 1 /\ startCalls[r] = 1

\* The start call of run r was rejected.
LaunchFailed(r) == \E s \in Sessions : owner[s] = r /\ status[s] = "NoSession"

\* Run r sent no execution request, registered no handler, requested no shutdown.
NothingSent(r) ==
  /\ ~handler[r]
  /\ fut[r] = "none"
  /\ kernel[r] = NoSession
  /\ \A s \in Sessions : owner[s] = r => (execReqs[s] = 0 /\ shutdownReqs[s] = 0)

\* C8: a failed spec query or a failed session start ends the run with that
\* error surfaced to the caller; no execution request is sent, no handler is
\* registered and no shutdown is requested for the run.
C8_FailureEndsRun ==
  \A r \in Runs :
    /\ specsState[r] = "rejected" =>
         (runResult[r] = "SpecUnavailable" /\ pc[r] = "failed" /\ startCalls[r] = 0
          /\ NothingSent(r))
    /\ LaunchFailed(r) =>
         (runResult[r] = "LaunchFailure" /\ pc[r] = "failed" /\ NothingSent(r))

C8_Witness ==
  \E r, q \in Runs : specsState[r] = "rejected" /\ LaunchFailed(q)

\* C9: within a run the session is started only after the spec query resolved,
\* and with the default name it returned; the execution request is sent only
\* after the start resolved; shutdown is requested only after future.done
\* resolved.
C9_ProtocolOrder ==
  /\ \A r \in Runs :
       startCalls[r] > 0 =>
         /\ specsState[r] = "resolved"
         /\ sessName[StartedSession(r)] = defaultName[r]
  /\ \A s \in Sessions :
       /\ execReqs[s] > 0 => (status[s] \notin {"NoSession", "Connecting"} /\ startCalls[owner[s]] = 1)
       /\ shutdownReqs[s] > 0 => (execReqs[s] > 0 /\ fut[owner[s]] = "resolved")

C9_Witness ==
  \E s \in Sessions : shutdownReqs[s] = 1 /\ sessName[s] = "ir" /\ status[s] = "Closing"

\* C10: overlapping runs have sessions of their own, and the completion of the
\* execution of a run requests the shutdown of that run's session only.
C10_RunsIsolated ==
  [][/\ \A r, q \in Runs :
          (r # q /\ kernel'[r] # NoSession) => kernel'[r] # kernel'[q]
     /\ \A r \in Runs, s \in Sessions :
          (pc[r] = "doneQueued" /\ shutdownReqs'[s] # shutdownReqs[s]) =>
            (s = kernel[r] /\ owner[s] = r /\ fut[r] = "resolved")
     /\ \A s \in Sessions :
          shutdownReqs'[s] # shutdownReqs[s] => fut[owner[s]] # "inflight"]_vars

C10_Witness ==
  \E r, q \in Runs :
    /\ r # q
    /\ kernel[r] # NoSession
    /\ status[kernel[r]] \in {"Closing", "Closed"}
    /\ fut[q] = "inflight"

====
